---- MODULE Spec2Model ----
(***************************************************************************)
(* umoci repack (cmd/umoci/repack.go): the repack command as a state       *)
(* machine over an OCI image store (content-addressed blobs plus named     *)
(* tag references).  One step of the model is one call made by repack().   *)
(* The CAS engine (oci/cas) and the image mutator (mutate) are not part of *)
(* repack.go; their operators below follow the documented contracts.       *)
(***************************************************************************)
EXTENDS Integers, Sequences, FiniteSets, TLC

VARIABLES
    blobs,          \* the CAS: digest -> blob content
    refs,           \* the CAS: tag name -> Descriptor (Absent when no such tag)
    pc,             \* per invocation: the call repack() makes next
    tagName,        \* ctx.App.Metadata["--image-tag"]
    meta,           \* meta.From, the bundle's saved descriptor
    engine,         \* the cas.Engine handle: "unopened", "open", "closed"
    mutator,        \* the in-memory manifest and config of mutate.Mutator
    diffs,          \* result of mtree.Check
    reader,         \* the layer stream returned by layer.GenerateLayer
    history,        \* the ispec.History record built for the new layer
    newDescriptor,  \* result of mutator.Commit
    err,            \* what repack() returned
    ops,            \* per invocation: the calls made so far, with their outcome
    seen,           \* per invocation: the values its tag has been bound to
    refLog,         \* the reference calls that succeeded, in the order the store served them
    cancelled,      \* the caller has asked for the repack to be cancelled
    blobs0,         \* the CAS blobs before any repack started
    refs0           \* the CAS references before any repack started

vars == <<blobs, refs, pc, tagName, meta, engine, mutator, diffs, reader,
          history, newDescriptor, err, ops, seen, refLog, cancelled, blobs0,
          refs0>>

-----------------------------------------------------------------------------
(* Bounds *)

MaxBaseLayers == 2
MaxDiffs == 1
MaxTime == 2

Procs == {1, 2}
Tags == {"latest", "other"}

-----------------------------------------------------------------------------
(* Media types (image-spec specs-go/v1) *)

MediaTypeImageManifest == "application/vnd.oci.image.manifest.v1+json"
MediaTypeImageManifestList == "application/vnd.oci.image.manifest.list.v1+json"
MediaTypeImageConfig == "application/vnd.oci.image.config.v1+json"
MediaTypeImageLayer == "application/vnd.oci.image.layer.v1.tar+gzip"

-----------------------------------------------------------------------------
(* Blobs, digests, descriptors *)

\* The content hash of a blob, algorithm-tagged.
Digest(content) == <<"sha256", content>>

Descriptor(mediaType, content) ==
    [mediaType |-> mediaType, digest |-> Digest(content)]

\* getReference's answer for a tag that does not exist.
Absent == [mediaType |-> "", digest |-> <<>>]

\* The zero value of ispec.Descriptor.
ZeroDescriptor == [mediaType |-> "", digest |-> <<"">>]

DiffKinds == {"Added", "Modified", "Removed"}

RECURSIVE SeqsUpTo(_, _)
SeqsUpTo(S, n) ==
    IF n = 0 THEN {<<>>}
    ELSE LET shorter == SeqsUpTo(S, n - 1)
         IN  shorter \cup {Append(s, e) : s \in shorter, e \in S}

\* The diff lists mtree.Check may return; <<>> is "no changes".
DiffLists == SeqsUpTo(DiffKinds, MaxDiffs)

LayerBlob(records) == [kind |-> "layer", records |-> records]

ConfigBlob(diffIDs, hist) ==
    [kind |-> "config", diff_ids |-> diffIDs, history |-> hist]

ManifestBlob(config, layers) ==
    [kind |-> "manifest", config |-> config, layers |-> layers]

-----------------------------------------------------------------------------
(* The base image the bundle was unpacked from *)

BaseLayer(i) == LayerBlob([j \in 1..i |-> "Base"])

BaseHistory(i) == [created |-> 0, created_by |-> "base", empty_layer |-> FALSE]

BaseConfig(k) ==
    ConfigBlob([i \in 1..k |-> Digest(BaseLayer(i))],
               [i \in 1..k |-> BaseHistory(i)])

BaseManifest(k) ==
    ManifestBlob(Descriptor(MediaTypeImageConfig, BaseConfig(k)),
                 [i \in 1..k |-> Descriptor(MediaTypeImageLayer, BaseLayer(i))])

BaseDescriptor(k) == Descriptor(MediaTypeImageManifest, BaseManifest(k))

\* A manifest descriptor whose blob is not in the store.
MissingDescriptor ==
    Descriptor(MediaTypeImageManifest,
               ManifestBlob(Descriptor(MediaTypeImageConfig, ConfigBlob(<<>>, <<>>)),
                            <<Descriptor(MediaTypeImageLayer, LayerBlob(<<"Missing">>))>>))

\* A descriptor of a manifest list (multi-platform index).
IndexDescriptor ==
    [mediaType |-> MediaTypeImageManifestList, digest |-> Digest([kind |-> "index"])]

BaseContents(k) ==
    {BaseManifest(k), BaseConfig(k)} \cup {BaseLayer(i) : i \in 1..k}

BaseStore(k) ==
    [d \in {Digest(c) : c \in BaseContents(k)} |->
        CHOOSE c \in BaseContents(k) : Digest(c) = d]

-----------------------------------------------------------------------------
(* CAS engine (oci/cas) *)

HasBlob(bs, digest) == digest \in DOMAIN bs

\* putBlob: content-addressed write; the blob is stored under its own digest.
PutBlob(bs, content) ==
    [d \in DOMAIN bs \cup {Digest(content)} |->
        IF d = Digest(content) THEN content ELSE bs[d]]

GetReference(rs, name) == rs[name]

\* deleteReference: the tag is absent afterwards, whether or not it existed.
DeleteReference(rs, name) == [rs EXCEPT ![name] = Absent]

\* putReference: the tag is bound to the descriptor.
PutReference(rs, name, descriptor) == [rs EXCEPT ![name] = descriptor]

-----------------------------------------------------------------------------
(* Image mutator (mutate) *)

NoMutator == [manifest |-> ManifestBlob(ZeroDescriptor, <<>>),
              config |-> ConfigBlob(<<>>, <<>>)]

\* mutate.New succeeds when the descriptor is a single-platform manifest whose
\* manifest and config blobs are in the store.
MutatorNewOk(bs, from) ==
    /\ from.mediaType = MediaTypeImageManifest
    /\ HasBlob(bs, from.digest)
    /\ bs[from.digest].kind = "manifest"
    /\ HasBlob(bs, bs[from.digest].config.digest)

MutatorNew(bs, from) ==
    [manifest |-> bs[from.digest],
     config |-> bs[bs[from.digest].config.digest]]

\* Mutator.Add, in memory: the layer descriptor is appended to the manifest,
\* its diffID and the history record are appended to the config.
MutatorAdd(m, layer, hist) ==
    [manifest |-> [m.manifest EXCEPT
                     !.layers = Append(@, Descriptor(MediaTypeImageLayer, layer))],
     config |-> [m.config EXCEPT
                     !.diff_ids = Append(@, Digest(layer)),
                     !.history = Append(@, hist)]]

\* Mutator.Commit: the manifest that is serialized references the new config.
CommitManifestBlob(m) ==
    [m.manifest EXCEPT !.config = Descriptor(MediaTypeImageConfig, m.config)]

-----------------------------------------------------------------------------
(* Errors *)

NoErr == [ctx |-> "", cause |-> ""]

\* errors.Wrap(err, ctx)
Wrap(cause, ctx) == [ctx |-> ctx, cause |-> cause]

\* "return err": the callee's error as it is
Bare(cause) == [ctx |-> "", cause |-> cause]

-----------------------------------------------------------------------------
(* Control flow of repack() *)

\* The call succeeded and repack() goes on to the next one.
Continue(p, call, next) ==
    /\ pc' = [pc EXCEPT ![p] = next]
    /\ ops' = [ops EXCEPT ![p] = Append(@, <<call, TRUE>>)]
    /\ UNCHANGED err

\* Return without the deferred engine.Close().
ReturnWithoutClose(p, call, ok, e) ==
    /\ pc' = [pc EXCEPT ![p] = "done"]
    /\ err' = [err EXCEPT ![p] = e]
    /\ UNCHANGED engine
    /\ ops' = [ops EXCEPT ![p] = Append(@, <<call, ok>>)]

\* repack() returns e after the call; the deferred engine.Close() runs when
\* the engine had been opened.
Return(p, call, ok, e) ==
    /\ pc' = [pc EXCEPT ![p] = "done"]
    /\ err' = [err EXCEPT ![p] = e]
    /\ engine' = [engine EXCEPT ![p] = IF @ = "open" THEN "closed" ELSE @]
    /\ ops' = [ops EXCEPT ![p] =
                 IF engine[p] = "open"
                 THEN Append(Append(@, <<call, ok>>), <<"engine.Close", TRUE>>)
                 ELSE Append(@, <<call, ok>>)]

\* Every invocation that shares the store observes the new binding of its tag.
Observe == seen' = [q \in Procs |-> seen[q] \cup {GetReference(refs', tagName[q])}]

\* The store serves the invocation's reference call: a call that succeeded is
\* appended to the store-wide order of reference calls.
Served(p, call) ==
    refLog' = IF \E i \in 1..Len(ops'[p]) : ops'[p][i] = <<call, TRUE>>
              THEN Append(refLog, <<p, call>>)
              ELSE refLog

\* Inputs of an invocation.  A repack that runs alone is checked with every
\* diff list and every time within the bounds; two repacks that run at the same
\* time are checked with two diff lists and two times each, which is enough for
\* them to write the same or different layers and the same or different configs.
Alone == \E p \in Procs : pc[p] = "idle"

DiffInputs == IF Alone THEN DiffLists ELSE {<<>>, <<"Added">>}

TimeInputs == IF Alone THEN 1..MaxTime ELSE {1, 2}

\* The descriptors a bundle's umoci.json may hold in its "from" field.
FromChoices ==
    {Descriptor(MediaTypeImageManifest, blobs0[d]) :
        d \in {x \in DOMAIN blobs0 : blobs0[x].kind = "manifest"}}
    \cup {MissingDescriptor, IndexDescriptor}

-----------------------------------------------------------------------------
(* The steps of repack() *)

ReadBundleMeta(p) ==
    /\ pc[p] = "ReadBundleMeta"
    /\ \E ok \in BOOLEAN, from \in FromChoices :
          IF ok
          THEN /\ meta' = [meta EXCEPT ![p] = from]
               /\ Continue(p, "ReadBundleMeta", "CheckMediaType")
               /\ UNCHANGED engine
          ELSE /\ Return(p, "ReadBundleMeta", FALSE,
                         Wrap("ReadBundleMeta", "read umoci.json metadata"))
               /\ UNCHANGED meta
    /\ UNCHANGED <<blobs, refs, tagName, mutator, diffs, reader, history,
                   newDescriptor, seen, refLog,
                   cancelled, blobs0, refs0>>

\* CheckMediaType without the media-type test of line 99.
CheckMediaTypeSkipped(p) ==
    /\ pc[p] = "CheckMediaType"
    /\ Continue(p, "CheckMediaType", "cas.Open")
    /\ UNCHANGED <<blobs, refs, tagName, meta, engine, mutator, diffs, reader,
                   history, newDescriptor, seen, refLog,
                   cancelled, blobs0, refs0>>

CheckMediaType(p) ==
    /\ pc[p] = "CheckMediaType"
    /\ IF meta[p].mediaType # MediaTypeImageManifest
       THEN Return(p, "CheckMediaType", FALSE,
                   Wrap("not implemented", "invalid saved from descriptor"))
       ELSE /\ Continue(p, "CheckMediaType", "cas.Open")
            /\ UNCHANGED engine
    /\ UNCHANGED <<blobs, refs, tagName, meta, mutator, diffs, reader, history,
                   newDescriptor, seen, refLog,
                   cancelled, blobs0, refs0>>

CasOpen(p) ==
    /\ pc[p] = "cas.Open"
    /\ \E ok \in BOOLEAN :
          IF ok
          THEN /\ engine' = [engine EXCEPT ![p] = "open"]
               /\ Continue(p, "cas.Open", "mutate.New")
          ELSE Return(p, "cas.Open", FALSE, Wrap("cas.Open", "open CAS"))
    /\ UNCHANGED <<blobs, refs, tagName, meta, mutator, diffs, reader, history,
                   newDescriptor, seen, refLog,
                   cancelled, blobs0, refs0>>

MutateNew(p) ==
    /\ pc[p] = "mutate.New"
    /\ \E ok \in BOOLEAN :
          IF ok /\ MutatorNewOk(blobs, meta[p])
          THEN /\ mutator' = [mutator EXCEPT ![p] = MutatorNew(blobs, meta[p])]
               /\ Continue(p, "mutate.New", "os.Open")
               /\ UNCHANGED engine
          ELSE /\ Return(p, "mutate.New", FALSE,
                         Wrap("mutate.New", "create mutator for base image"))
               /\ UNCHANGED mutator
    /\ UNCHANGED <<blobs, refs, tagName, meta, diffs, reader, history,
                   newDescriptor, seen, refLog,
                   cancelled, blobs0, refs0>>

\* os.Open tried a second time after it failed once.
OpenMtreeRetryingOnce(p) ==
    /\ pc[p] = "os.Open"
    /\ \E ok \in BOOLEAN :
          IF ok
          THEN /\ Continue(p, "os.Open", "mtree.ParseSpec")
               /\ UNCHANGED engine
          ELSE IF \E i \in 1..Len(ops[p]) : ops[p][i] = <<"os.Open", FALSE>>
               THEN Return(p, "os.Open", FALSE, Wrap("os.Open", "open mtree"))
               ELSE /\ ops' = [ops EXCEPT ![p] = Append(@, <<"os.Open", FALSE>>)]
                    /\ UNCHANGED <<pc, err, engine>>
    /\ UNCHANGED <<blobs, refs, tagName, meta, mutator, diffs, reader, history,
                   newDescriptor, seen, refLog,
                   cancelled, blobs0, refs0>>

OpenMtree(p) ==
    /\ pc[p] = "os.Open"
    /\ \E ok \in BOOLEAN :
          IF ok
          THEN /\ Continue(p, "os.Open", "mtree.ParseSpec")
               /\ UNCHANGED engine
          ELSE Return(p, "os.Open", FALSE, Wrap("os.Open", "open mtree"))
    /\ UNCHANGED <<blobs, refs, tagName, meta, mutator, diffs, reader, history,
                   newDescriptor, seen, refLog,
                   cancelled, blobs0, refs0>>

\* ParseSpec with its error dropped: repack() goes on with an unparsed spec.
ParseMtreeIgnoringErr(p) ==
    /\ pc[p] = "mtree.ParseSpec"
    /\ \E ok \in BOOLEAN :
          /\ pc' = [pc EXCEPT ![p] = "mtree.Check"]
          /\ ops' = [ops EXCEPT ![p] = Append(@, <<"mtree.ParseSpec", ok>>)]
    /\ UNCHANGED <<blobs, refs, tagName, meta, engine, mutator, diffs, reader,
                   history, newDescriptor, err, seen, refLog,
                   cancelled, blobs0, refs0>>

ParseMtree(p) ==
    /\ pc[p] = "mtree.ParseSpec"
    /\ \E ok \in BOOLEAN :
          IF ok
          THEN /\ Continue(p, "mtree.ParseSpec", "mtree.Check")
               /\ UNCHANGED engine
          ELSE Return(p, "mtree.ParseSpec", FALSE, Wrap("mtree.ParseSpec", "parse mtree"))
    /\ UNCHANGED <<blobs, refs, tagName, meta, mutator, diffs, reader, history,
                   newDescriptor, seen, refLog,
                   cancelled, blobs0, refs0>>

\* mtree.Check followed by "nothing changed, nothing to do".
CheckMtreeShortCircuit(p) ==
    /\ pc[p] = "mtree.Check"
    /\ \E ok \in BOOLEAN, d \in DiffInputs :
          IF ok
          THEN /\ diffs' = [diffs EXCEPT ![p] = d]
               /\ IF d = <<>>
                  THEN Return(p, "mtree.Check", TRUE, NoErr)
                  ELSE /\ Continue(p, "mtree.Check", "layer.GenerateLayer")
                       /\ UNCHANGED engine
          ELSE /\ Return(p, "mtree.Check", FALSE, Wrap("mtree.Check", "check mtree"))
               /\ UNCHANGED diffs
    /\ UNCHANGED <<blobs, refs, tagName, meta, mutator, reader, history,
                   newDescriptor, seen, refLog,
                   cancelled, blobs0, refs0>>

CheckMtree(p) ==
    /\ pc[p] = "mtree.Check"
    /\ \E ok \in BOOLEAN, d \in DiffInputs :
          IF ok
          THEN /\ diffs' = [diffs EXCEPT ![p] = d]
               /\ Continue(p, "mtree.Check", "layer.GenerateLayer")
               /\ UNCHANGED engine
          ELSE /\ Return(p, "mtree.Check", FALSE, Wrap("mtree.Check", "check mtree"))
               /\ UNCHANGED diffs
    /\ UNCHANGED <<blobs, refs, tagName, meta, mutator, reader, history,
                   newDescriptor, seen, refLog,
                   cancelled, blobs0, refs0>>

\* The layer is streamed: GenerateLayer returns a reader at once, and a file
\* that cannot be read breaks the stream while it is being consumed.
GenerateLayer(p) ==
    /\ pc[p] = "layer.GenerateLayer"
    /\ \E ok \in BOOLEAN, broken \in BOOLEAN :
          IF ok
          THEN /\ reader' = [reader EXCEPT ![p] =
                               [records |-> diffs[p], broken |-> broken]]
               /\ Continue(p, "layer.GenerateLayer", "mutator.Meta")
               /\ UNCHANGED engine
          ELSE /\ Return(p, "layer.GenerateLayer", FALSE,
                         Wrap("layer.GenerateLayer", "generate diff layer"))
               /\ UNCHANGED reader
    /\ UNCHANGED <<blobs, refs, tagName, meta, mutator, diffs, history,
                   newDescriptor, seen, refLog,
                   cancelled, blobs0, refs0>>

\* mutator.Meta, then the history record of the new layer.
MutatorMeta(p) ==
    /\ pc[p] = "mutator.Meta"
    /\ \E ok \in BOOLEAN, now \in TimeInputs :
          IF ok
          THEN /\ history' = [history EXCEPT ![p] =
                                [created |-> now, created_by |-> "umoci config",
                                 empty_layer |-> FALSE]]
               /\ Continue(p, "mutator.Meta", "mutator.Add")
               /\ UNCHANGED engine
          ELSE /\ Return(p, "mutator.Meta", FALSE,
                         Wrap("mutator.Meta", "get image metadata"))
               /\ UNCHANGED history
    /\ UNCHANGED <<blobs, refs, tagName, meta, mutator, diffs, reader,
                   newDescriptor, seen, refLog,
                   cancelled, blobs0, refs0>>

\* Add with its error dropped: repack() goes on to Commit after a failed Add.
AddIgnoringErr(p) ==
    /\ pc[p] = "mutator.Add"
    /\ \E ok \in BOOLEAN :
          IF ok /\ ~reader[p].broken
          THEN /\ blobs' = PutBlob(blobs, LayerBlob(reader[p].records))
               /\ mutator' = [mutator EXCEPT ![p] =
                                MutatorAdd(@, LayerBlob(reader[p].records), history[p])]
               /\ Continue(p, "mutator.Add", "mutator.Commit")
          ELSE /\ pc' = [pc EXCEPT ![p] = "mutator.Commit"]
               /\ ops' = [ops EXCEPT ![p] = Append(@, <<"mutator.Add", FALSE>>)]
               /\ UNCHANGED <<blobs, mutator, err>>
    /\ UNCHANGED <<refs, tagName, meta, engine, diffs, reader, history,
                   newDescriptor, seen, refLog,
                   cancelled, blobs0, refs0>>

\* mutator.Add: the layer blob is written to the CAS, then the in-memory
\* manifest and config are extended.
Add(p) ==
    /\ pc[p] = "mutator.Add"
    /\ \E ok \in BOOLEAN :
          IF ok /\ ~reader[p].broken
          THEN /\ blobs' = PutBlob(blobs, LayerBlob(reader[p].records))
               /\ mutator' = [mutator EXCEPT ![p] =
                                MutatorAdd(@, LayerBlob(reader[p].records), history[p])]
               /\ Continue(p, "mutator.Add", "mutator.Commit")
               /\ UNCHANGED engine
          ELSE /\ Return(p, "mutator.Add", FALSE,
                         Wrap("mutator.Add", "add diff layer"))
               /\ UNCHANGED <<blobs, mutator>>
    /\ UNCHANGED <<refs, tagName, meta, diffs, reader, history,
                   newDescriptor, seen, refLog,
                   cancelled, blobs0, refs0>>

\* mutator.Commit, first write: the config blob.
CommitConfig(p) ==
    /\ pc[p] = "mutator.Commit"
    /\ \E ok \in BOOLEAN :
          IF ok
          THEN /\ blobs' = PutBlob(blobs, mutator[p].config)
               /\ pc' = [pc EXCEPT ![p] = "mutator.Commit.manifest"]
               /\ UNCHANGED <<engine, err, ops>>
          ELSE /\ Return(p, "mutator.Commit", FALSE,
                         Wrap("mutator.Commit", "commit mutated image"))
               /\ UNCHANGED blobs
    /\ UNCHANGED <<refs, tagName, meta, mutator, diffs, reader, history,
                   newDescriptor, seen, refLog,
                   cancelled, blobs0, refs0>>

\* Commit with its error dropped: repack() goes on to the tag swap after a
\* failed manifest write, with the zero Descriptor Commit returned.
CommitManifestIgnoringErr(p) ==
    /\ pc[p] = "mutator.Commit.manifest"
    /\ \E ok \in BOOLEAN :
          IF ok
          THEN /\ blobs' = PutBlob(blobs, CommitManifestBlob(mutator[p]))
               /\ newDescriptor' = [newDescriptor EXCEPT ![p] =
                     Descriptor(MediaTypeImageManifest, CommitManifestBlob(mutator[p]))]
               /\ Continue(p, "mutator.Commit", "engine.DeleteReference")
          ELSE /\ pc' = [pc EXCEPT ![p] = "engine.DeleteReference"]
               /\ ops' = [ops EXCEPT ![p] = Append(@, <<"mutator.Commit", FALSE>>)]
               /\ UNCHANGED <<blobs, newDescriptor, err>>
    /\ UNCHANGED <<refs, tagName, meta, engine, mutator, diffs, reader, history,
                   seen, refLog,
                   cancelled, blobs0, refs0>>

\* mutator.Commit, second write: the manifest blob; its descriptor is returned.
CommitManifest(p) ==
    /\ pc[p] = "mutator.Commit.manifest"
    /\ \E ok \in BOOLEAN :
          IF ok
          THEN /\ blobs' = PutBlob(blobs, CommitManifestBlob(mutator[p]))
               /\ newDescriptor' = [newDescriptor EXCEPT ![p] =
                     Descriptor(MediaTypeImageManifest, CommitManifestBlob(mutator[p]))]
               /\ Continue(p, "mutator.Commit", "engine.DeleteReference")
               /\ UNCHANGED engine
          ELSE /\ Return(p, "mutator.Commit", FALSE,
                         Wrap("mutator.Commit", "commit mutated image"))
               /\ UNCHANGED <<blobs, newDescriptor>>
    /\ UNCHANGED <<refs, tagName, meta, mutator, diffs, reader, history,
                   seen, refLog,
                   cancelled, blobs0, refs0>>

\* DeleteReference given the default tag instead of the tag asked for.
DeleteRefDefaultTag(p) ==
    /\ pc[p] = "engine.DeleteReference"
    /\ \E ok \in BOOLEAN :
          IF ok
          THEN /\ refs' = DeleteReference(refs, "latest")
               /\ Continue(p, "engine.DeleteReference", "engine.PutReference")
               /\ UNCHANGED engine
          ELSE /\ Return(p, "engine.DeleteReference", FALSE,
                         Bare("engine.DeleteReference"))
               /\ UNCHANGED refs
    /\ Observe
    /\ Served(p, "engine.DeleteReference")
    /\ UNCHANGED <<blobs, tagName, meta, mutator, diffs, reader, history,
                   newDescriptor, cancelled, blobs0, refs0>>

\* DeleteReference with its error dropped: repack() goes on to PutReference
\* after a failed delete.
DeleteRefIgnoringErr(p) ==
    /\ pc[p] = "engine.DeleteReference"
    /\ \E ok \in BOOLEAN :
          /\ refs' = IF ok THEN DeleteReference(refs, tagName[p]) ELSE refs
          /\ pc' = [pc EXCEPT ![p] = "engine.PutReference"]
          /\ ops' = [ops EXCEPT ![p] = Append(@, <<"engine.DeleteReference", ok>>)]
    /\ Observe
    /\ Served(p, "engine.DeleteReference")
    /\ UNCHANGED <<blobs, tagName, meta, engine, mutator, diffs, reader, history,
                   newDescriptor, err, cancelled, blobs0, refs0>>

\* Clobbering the old reference together with the manifest blob it pointed at.
DeleteRefAndBlob(p) ==
    /\ pc[p] = "engine.DeleteReference"
    /\ \E ok \in BOOLEAN :
          IF ok
          THEN /\ refs' = DeleteReference(refs, tagName[p])
               /\ blobs' = [d \in DOMAIN blobs \ {GetReference(refs, tagName[p]).digest}
                              |-> blobs[d]]
               /\ Continue(p, "engine.DeleteReference", "engine.PutReference")
               /\ UNCHANGED engine
          ELSE /\ Return(p, "engine.DeleteReference", FALSE,
                         Bare("engine.DeleteReference"))
               /\ UNCHANGED <<refs, blobs>>
    /\ Observe
    /\ Served(p, "engine.DeleteReference")
    /\ UNCHANGED <<tagName, meta, mutator, diffs, reader, history,
                   newDescriptor, cancelled, blobs0, refs0>>

\* "We have to clobber the old reference."
DeleteRef(p) ==
    /\ pc[p] = "engine.DeleteReference"
    /\ \E ok \in BOOLEAN :
          IF ok
          THEN /\ refs' = DeleteReference(refs, tagName[p])
               /\ Continue(p, "engine.DeleteReference", "engine.PutReference")
               /\ UNCHANGED engine
          ELSE /\ Return(p, "engine.DeleteReference", FALSE,
                         Bare("engine.DeleteReference"))
               /\ UNCHANGED refs
    /\ Observe
    /\ Served(p, "engine.DeleteReference")
    /\ UNCHANGED <<blobs, tagName, meta, mutator, diffs, reader, history,
                   newDescriptor, cancelled, blobs0, refs0>>

\* PutReference that leaves a tag that is present as it is.
PutRefIfAbsent(p) ==
    /\ pc[p] = "engine.PutReference"
    /\ \E ok \in BOOLEAN :
          IF ok
          THEN /\ refs' = IF GetReference(refs, tagName[p]) = Absent
                          THEN PutReference(refs, tagName[p], newDescriptor[p])
                          ELSE refs
               /\ Return(p, "engine.PutReference", TRUE, NoErr)
          ELSE /\ Return(p, "engine.PutReference", FALSE,
                         Bare("engine.PutReference"))
               /\ UNCHANGED refs
    /\ Observe
    /\ Served(p, "engine.PutReference")
    /\ UNCHANGED <<blobs, tagName, meta, mutator, diffs, reader, history,
                   newDescriptor, cancelled, blobs0, refs0>>

\* PutReference given the bundle's saved descriptor instead of Commit's.
PutRefOldDescriptor(p) ==
    /\ pc[p] = "engine.PutReference"
    /\ \E ok \in BOOLEAN :
          IF ok
          THEN /\ refs' = PutReference(refs, tagName[p], meta[p])
               /\ Return(p, "engine.PutReference", TRUE, NoErr)
          ELSE /\ Return(p, "engine.PutReference", FALSE,
                         Bare("engine.PutReference"))
               /\ UNCHANGED refs
    /\ Observe
    /\ Served(p, "engine.PutReference")
    /\ UNCHANGED <<blobs, tagName, meta, mutator, diffs, reader, history,
                   newDescriptor, cancelled, blobs0, refs0>>

\* PutReference with its error dropped: repack() returns nil after a failed put.
PutRefSwallowingErr(p) ==
    /\ pc[p] = "engine.PutReference"
    /\ \E ok \in BOOLEAN :
          /\ refs' = IF ok THEN PutReference(refs, tagName[p], newDescriptor[p]) ELSE refs
          /\ Return(p, "engine.PutReference", ok, NoErr)
    /\ Observe
    /\ Served(p, "engine.PutReference")
    /\ UNCHANGED <<blobs, tagName, meta, mutator, diffs, reader, history,
                   newDescriptor, cancelled, blobs0, refs0>>

PutRef(p) ==
    /\ pc[p] = "engine.PutReference"
    /\ \E ok \in BOOLEAN :
          IF ok
          THEN /\ refs' = PutReference(refs, tagName[p], newDescriptor[p])
               /\ Return(p, "engine.PutReference", TRUE, NoErr)
          ELSE /\ Return(p, "engine.PutReference", FALSE,
                         Bare("engine.PutReference"))
               /\ UNCHANGED refs
    /\ Observe
    /\ Served(p, "engine.PutReference")
    /\ UNCHANGED <<blobs, tagName, meta, mutator, diffs, reader, history,
                   newDescriptor, cancelled, blobs0, refs0>>

-----------------------------------------------------------------------------
(* Specification *)

\* The state when the invocations in `running` enter repack().
InitWith(running) ==
    \E k \in 0..MaxBaseLayers :
        /\ blobs = BaseStore(k)
        /\ refs \in [Tags -> {Absent, BaseDescriptor(k)}]
        /\ blobs0 = blobs
        /\ refs0 = refs
        /\ pc = [p \in Procs |-> IF p \in running THEN "ReadBundleMeta" ELSE "idle"]
        /\ tagName \in {f \in [Procs -> Tags] : \A p \in Procs \ running : f[p] = "latest"}
        /\ meta = [p \in Procs |-> ZeroDescriptor]
        /\ engine = [p \in Procs |-> "unopened"]
        /\ mutator = [p \in Procs |-> NoMutator]
        /\ diffs = [p \in Procs |-> <<>>]
        /\ reader = [p \in Procs |-> [records |-> <<>>, broken |-> FALSE]]
        /\ history = [p \in Procs |-> [created |-> 0, created_by |-> "",
                                       empty_layer |-> FALSE]]
        /\ newDescriptor = [p \in Procs |-> ZeroDescriptor]
        /\ err = [p \in Procs |-> NoErr]
        /\ ops = [p \in Procs |-> <<>>]
        /\ seen = [p \in Procs |-> {GetReference(refs, tagName[p])}]
        /\ refLog = <<>>
        /\ cancelled = FALSE

\* A single repack against the store.
Init == InitWith({1})

Next ==
    \E p \in Procs :
        \/ ReadBundleMeta(p)
        \/ CheckMediaType(p)
        \/ CasOpen(p)
        \/ MutateNew(p)
        \/ OpenMtree(p)
        \/ ParseMtree(p)
        \/ CheckMtree(p)
        \/ GenerateLayer(p)
        \/ MutatorMeta(p)
        \/ Add(p)
        \/ CommitConfig(p)
        \/ CommitManifest(p)
        \/ DeleteRef(p)
        \/ PutRef(p)

Spec == Init /\ [][Next]_vars

\* The caller issues the one cancellation signal while a repack is running.
\* No step of repack() reads it: the context handed to every mutator and engine
\* call is context.Background(), which is never done.
Cancel ==
    /\ ~cancelled
    /\ \E p \in Procs : pc[p] \notin {"idle", "done"}
    /\ cancelled' = TRUE
    /\ UNCHANGED <<blobs, refs, pc, tagName, meta, engine, mutator, diffs, reader,
                   history, newDescriptor, err, ops, seen, refLog, blobs0, refs0>>

\* A single repack that the caller may cancel.
NextCancel == Next \/ Cancel

SpecCancel == Init /\ [][NextCancel]_vars

\* A single repack each of whose calls returns.
SpecFair == Init /\ [][Next]_vars /\ WF_vars(Next)

\* Two repacks against the same store at the same time.
InitConc == InitWith(Procs)

SpecConc == InitConc /\ [][Next]_vars

-----------------------------------------------------------------------------
(* Vocabulary of the properties *)

\* The invocation has made the call, with that outcome.
Did(p, call, ok) == \E i \in 1..Len(ops[p]) : ops[p][i] = <<call, ok>>

Terminated(p) == pc[p] = "done"

Succeeded(p) == Terminated(p) /\ err[p] = NoErr

\* The tag's binding now, and before the repack.
TagNow(p) == GetReference(refs, tagName[p])
TagBefore(p) == GetReference(refs0, tagName[p])

TagOps == {"engine.DeleteReference", "engine.PutReference"}

\* The descriptor resolves: its manifest blob is stored under its digest, and
\* so are the manifest's config blob and every one of its layer blobs.
Resolves(bs, d) ==
    /\ HasBlob(bs, d.digest)
    /\ Digest(bs[d.digest]) = d.digest
    /\ bs[d.digest].kind = "manifest"
    /\ HasBlob(bs, bs[d.digest].config.digest)
    /\ bs[bs[d.digest].config.digest].kind = "config"
    /\ \A i \in 1..Len(bs[d.digest].layers) :
          /\ HasBlob(bs, bs[d.digest].layers[i].digest)
          /\ bs[bs[d.digest].layers[i].digest].kind = "layer"

\* The manifest the bundle was unpacked from, and its config.
BaseManifestOf(p) == blobs0[meta[p].digest]
BaseConfigOf(p) == blobs0[BaseManifestOf(p).config.digest]

\* The manifest Commit wrote, and its config.
NewManifestOf(p) == blobs[newDescriptor[p].digest]
NewConfigOf(p) == blobs[NewManifestOf(p).config.digest]

-----------------------------------------------------------------------------
(* Properties of a single repack *)

\* C1: DeleteReference and PutReference are called only after Mutator.Commit
\* has returned successfully and every call before it has succeeded; until
\* Commit has succeeded no reference of the store has changed.
C1_TagOpsOnlyAfterCommit ==
    \A p \in Procs :
        /\ \A i \in 1..Len(ops[p]) :
              ops[p][i][1] \in TagOps =>
                 /\ \E j \in 1..(i - 1) : ops[p][j] = <<"mutator.Commit", TRUE>>
                 /\ \A j \in 1..(i - 1) : ops[p][j][2] = TRUE
        /\ ~Did(p, "mutator.Commit", TRUE) /\ pc[p] # "idle" => refs = refs0

\* C1 witness: the tag swap has run to its end after a successful Commit.
C1_Witness ==
    /\ Did(1, "mutator.Commit", TRUE)
    /\ Did(1, "engine.DeleteReference", TRUE)
    /\ Did(1, "engine.PutReference", TRUE)
    /\ refs # refs0

\* C2: when Commit has failed, at termination the tag is bound to what it was
\* bound to before the repack (a Descriptor or nothing), and if bound, to a
\* manifest that is in the store together with its config blob.
C2_CommitFailureKeepsTag ==
    \A p \in Procs :
        Terminated(p) /\ Did(p, "mutator.Commit", FALSE) =>
            /\ TagNow(p) = TagBefore(p)
            /\ TagNow(p) # Absent =>
                  /\ HasBlob(blobs, TagNow(p).digest)
                  /\ HasBlob(blobs, blobs[TagNow(p).digest].config.digest)

\* C2 witness: Commit failed at the manifest write, after the new config blob
\* had been written, and the tag existed.
C2_Witness ==
    /\ Terminated(1)
    /\ Did(1, "mutator.Commit", FALSE)
    /\ HasBlob(blobs, Digest(mutator[1].config))
    /\ ~HasBlob(blobs0, Digest(mutator[1].config))
    /\ TagBefore(1) # Absent

\* C3 as stated: after a store error in Add, Commit or the tag swap, the tag
\* is bound at termination to its pre-repack Descriptor.
C3_StoreErrorKeepsTag ==
    \A p \in Procs :
        /\ Terminated(p)
        /\ \/ Did(p, "mutator.Add", FALSE)
           \/ Did(p, "mutator.Commit", FALSE)
           \/ Did(p, "engine.DeleteReference", FALSE)
           \/ Did(p, "engine.PutReference", FALSE)
        => TagNow(p) = TagBefore(p)

\* C3 amended: after a store error in Add, Commit or DeleteReference the tag
\* is bound at termination to its pre-repack Descriptor; after a failed
\* PutReference the tag is absent.
C3_StoreErrorKeepsTagUnlessPutFails ==
    \A p \in Procs :
        Terminated(p) =>
            /\ \/ Did(p, "mutator.Add", FALSE)
               \/ Did(p, "mutator.Commit", FALSE)
               \/ Did(p, "engine.DeleteReference", FALSE)
               => TagNow(p) = TagBefore(p)
            /\ Did(p, "engine.PutReference", FALSE) => TagNow(p) = Absent

\* C3 witness: PutReference failed and the tag that existed is gone.
C3_Witness ==
    /\ Terminated(1)
    /\ Did(1, "engine.PutReference", FALSE)
    /\ TagBefore(1) # Absent
    /\ TagNow(1) = Absent

\* C4: in every state, every tag that is present resolves to a manifest blob
\* in the store whose config blob and layer blobs are in the store; and every
\* manifest blob in the store has its config blob and its layer blobs there.
C4_NoDanglingReference ==
    /\ \A t \in Tags : refs[t] # Absent => Resolves(blobs, refs[t])
    /\ \A d \in DOMAIN blobs :
          blobs[d].kind = "manifest" =>
              Resolves(blobs, [mediaType |-> MediaTypeImageManifest, digest |-> d])

\* C4 witness: the tag is bound to a manifest this repack has written.
C4_Witness ==
    /\ Succeeded(1)
    /\ TagNow(1) = newDescriptor[1]
    /\ ~HasBlob(blobs0, newDescriptor[1].digest)

\* C5: no step removes a blob from the store or changes the content stored
\* under a digest.
C5_BlobsOnlyAdded ==
    [][\A d \in DOMAIN blobs : HasBlob(blobs', d) /\ blobs'[d] = blobs[d]]_vars

\* C5 witness: the repack has written its layer, config and manifest blobs
\* next to those of a base image with layers.
C5_Witness ==
    /\ Succeeded(1)
    /\ Cardinality(DOMAIN blobs) = Cardinality(DOMAIN blobs0) + 3
    /\ Cardinality(DOMAIN blobs0) > 2

\* C6: when the saved descriptor is not an image manifest, repack returns the
\* "invalid saved from descriptor" error right after the metadata was read:
\* the store was not opened and its blobs and references are as before.
C6_UnsupportedMediaTypeFailsFirst ==
    \A p \in Procs :
        Did(p, "ReadBundleMeta", TRUE) /\ meta[p].mediaType # MediaTypeImageManifest =>
            /\ pc[p] \in {"CheckMediaType", "done"}
            /\ engine[p] = "unopened"
            /\ blobs = blobs0
            /\ refs = refs0
            /\ Terminated(p) =>
                  /\ err[p].ctx = "invalid saved from descriptor"
                  /\ ops[p] = <<<<"ReadBundleMeta", TRUE>>, <<"CheckMediaType", FALSE>>>>

\* C6 witness: a repack of a bundle unpacked from a manifest list has returned.
C6_Witness ==
    /\ Terminated(1)
    /\ meta[1] = IndexDescriptor

\* C7 as stated: after a successful repack the tag is bound to the Descriptor
\* Commit returned, and the tag has only ever been bound to its pre-repack
\* Descriptor and to the new one.
C7_OnlyOldAndNewSeen ==
    \A p \in Procs :
        Succeeded(p) =>
            /\ TagNow(p) = newDescriptor[p]
            /\ seen[p] \subseteq {TagBefore(p), newDescriptor[p]}

\* C7 amended: after a successful repack the tag is bound to the Descriptor
\* Commit returned; the tag has only ever been bound to its pre-repack
\* Descriptor, to nothing (between DeleteReference and PutReference) and to
\* the new Descriptor, and no other tag has changed.
C7_OldAbsentNewSeen ==
    \A p \in Procs :
        pc[p] # "idle" =>
            /\ Succeeded(p) =>
                  /\ TagNow(p) = newDescriptor[p]
                  /\ newDescriptor[p] =
                        Descriptor(MediaTypeImageManifest, CommitManifestBlob(mutator[p]))
            /\ TagNow(p) \in seen[p]
            /\ seen[p] \subseteq {TagBefore(p), Absent, newDescriptor[p]}
            /\ \A t \in Tags \ {tagName[p]} : refs[t] = refs0[t]

\* C7 witness: a successful repack of a tag that existed.
C7_Witness ==
    /\ Succeeded(1)
    /\ TagBefore(1) # Absent
    /\ seen[1] = {TagBefore(1), Absent, newDescriptor[1]}

\* C8: a successful repack has called Mutator.Add once; the manifest it
\* committed lists the base manifest's layers followed by the one new layer,
\* and the config it committed has one history record more than the base's.
C8_OneLayerAppended ==
    \A p \in Procs :
        Succeeded(p) =>
            /\ Cardinality({i \in 1..Len(ops[p]) : ops[p][i][1] = "mutator.Add"}) = 1
            /\ Did(p, "mutator.Add", TRUE)
            /\ Resolves(blobs, newDescriptor[p])
            /\ NewManifestOf(p).layers =
                  Append(BaseManifestOf(p).layers,
                         Descriptor(MediaTypeImageLayer, LayerBlob(diffs[p])))
            /\ Len(NewConfigOf(p).history) = Len(BaseConfigOf(p).history) + 1
            /\ SubSeq(NewConfigOf(p).history, 1, Len(BaseConfigOf(p).history))
                  = BaseConfigOf(p).history

\* C8 witness: a successful repack with changes on top of a base with layers.
C8_Witness ==
    /\ Succeeded(1)
    /\ Len(BaseManifestOf(1).layers) > 0
    /\ diffs[1] # <<>>

\* C9: between DeleteReference and PutReference, and after a failed
\* PutReference, the tag is absent and the new image is whole: its manifest,
\* config and layers, the new layer and the base layers among them, are in
\* the store under their digests.
C9_AbsentTagImageWhole ==
    \A p \in Procs :
        pc[p] = "engine.PutReference"
          \/ (Terminated(p) /\ Did(p, "engine.PutReference", FALSE)) =>
            /\ TagNow(p) = Absent
            /\ Resolves(blobs, newDescriptor[p])
            /\ HasBlob(blobs, Digest(LayerBlob(diffs[p])))
            /\ \A i \in 1..Len(BaseManifestOf(p).layers) :
                  /\ HasBlob(blobs, BaseManifestOf(p).layers[i].digest)
                  /\ NewManifestOf(p).layers[i] = BaseManifestOf(p).layers[i]

\* C9 witness: PutReference failed after the old tag had been deleted.
C9_Witness ==
    /\ Terminated(1)
    /\ Did(1, "engine.PutReference", FALSE)
    /\ TagBefore(1) # Absent
    /\ Len(BaseManifestOf(1).layers) > 0

\* C10: at termination a tag that existed is absent only when DeleteReference
\* succeeded and PutReference failed; otherwise it is bound to its pre-repack
\* Descriptor or to the new one; and whenever the tag is absent at
\* termination repack has returned an error.
C10_NoTagOnlyAfterFailedSwap ==
    \A p \in Procs :
        Terminated(p) =>
            /\ TagBefore(p) # Absent =>
                  IF Did(p, "engine.DeleteReference", TRUE)
                        /\ Did(p, "engine.PutReference", FALSE)
                  THEN TagNow(p) = Absent
                  ELSE TagNow(p) \in {TagBefore(p), newDescriptor[p]} \ {Absent}
            /\ TagNow(p) = Absent => err[p] # NoErr

\* C10 witness: a tag that existed is gone at termination, with an error.
C10_Witness ==
    /\ Terminated(1)
    /\ TagBefore(1) # Absent
    /\ TagNow(1) = Absent
    /\ err[1] = Bare("engine.PutReference")

-----------------------------------------------------------------------------
(* Properties of two repacks at the same time *)

\* The invocation whose PutReference the store served last.
LastWriter ==
    LET puts == {i \in 1..Len(refLog) : refLog[i][2] = "engine.PutReference"}
    IN  refLog[CHOOSE i \in puts : \A j \in puts : j <= i][1]

\* C11: when two repacks of the same tag have both returned without error,
\* the tag is present and bound to the Descriptor of the repack whose
\* PutReference the store served last.
C11_LastWriterWins ==
    (\A p \in Procs : Succeeded(p)) /\ tagName[1] = tagName[2] =>
        /\ TagNow(1) # Absent
        /\ TagNow(1) = newDescriptor[LastWriter]
        /\ Resolves(blobs, TagNow(1))

\* C11 witness: the two swaps overlapped (both deletes came before both puts),
\* the repacks committed different manifests, and the later put is the tag.
C11_Witness ==
    /\ \A p \in Procs : Succeeded(p)
    /\ tagName[1] = tagName[2]
    /\ newDescriptor[1] # newDescriptor[2]
    /\ refLog = << <<1, "engine.DeleteReference">>, <<2, "engine.DeleteReference">>,
                   <<2, "engine.PutReference">>, <<1, "engine.PutReference">> >>
    /\ TagNow(1) = newDescriptor[1]

\* The digests of the blobs the invocation has written so far.
WrittenBy(p) ==
    (IF Did(p, "mutator.Add", TRUE)
        THEN {Digest(LayerBlob(diffs[p]))} ELSE {})
    \cup (IF Did(p, "mutator.Add", TRUE)
             /\ (pc[p] = "mutator.Commit.manifest" \/ Did(p, "mutator.Commit", TRUE)
                 \/ (Terminated(p) /\ HasBlob(blobs, Digest(mutator[p].config))))
        THEN {Digest(mutator[p].config)} ELSE {})
    \cup (IF Did(p, "mutator.Commit", TRUE)
        THEN {newDescriptor[p].digest} ELSE {})

\* C12: two repacks of different tags do not disturb each other: each tag is
\* only ever bound to its pre-repack Descriptor, to nothing or to its own
\* repack's new Descriptor, a repack that returned without error has its tag
\* bound to its own new Descriptor, and one that returned before its
\* DeleteReference succeeded has left its tag as it was.  The store holds the
\* blobs it held before and the blobs the two repacks wrote, each once under
\* its own digest, whether it was written once or twice.
C12_DifferentTagsIndependent ==
    /\ tagName[1] # tagName[2] =>
          \A p \in Procs :
              /\ seen[p] \subseteq {TagBefore(p), Absent, newDescriptor[p]}
              /\ Succeeded(p) =>
                    TagNow(p) = newDescriptor[p] /\ Resolves(blobs, newDescriptor[p])
              /\ Terminated(p) /\ ~Did(p, "engine.DeleteReference", TRUE) =>
                    TagNow(p) = TagBefore(p)
    /\ \A d \in DOMAIN blobs : Digest(blobs[d]) = d
    /\ \A d \in DOMAIN blobs0 : HasBlob(blobs, d) /\ blobs[d] = blobs0[d]
    /\ DOMAIN blobs \ DOMAIN blobs0 =
          UNION {WrittenBy(p) : p \in Procs} \ DOMAIN blobs0

\* C12 witness: two repacks of different tags wrote the same layer, config and
\* manifest; both tags are bound to it and the store holds the three blobs once.
C12_Witness ==
    /\ \A p \in Procs : Succeeded(p)
    /\ tagName[1] # tagName[2]
    /\ newDescriptor[1] = newDescriptor[2]
    /\ TagNow(1) = newDescriptor[1]
    /\ TagNow(2) = newDescriptor[2]
    /\ Cardinality(DOMAIN blobs) = Cardinality(DOMAIN blobs0) + 3

-----------------------------------------------------------------------------
(* Cancellation *)

\* The step is a PutReference that the store served.
PutServed == Len(refLog') > Len(refLog) /\ refLog'[Len(refLog')][2] = "engine.PutReference"

\* C13: once the cancellation signal has been issued, no PutReference is
\* executed: the tag is not written after cancellation.
C13_NoTagWriteAfterCancel == [][cancelled => ~PutServed]_vars

-----------------------------------------------------------------------------
(* Errors, order of the stages, termination, the CAS handle *)

\* The invocation has made the call.
Called(p, call) == \E i \in 1..Len(ops[p]) : ops[p][i][1] = call

\* Nothing of the store has changed and nothing that changes it was called.
StoreUntouched(p) ==
    /\ blobs = blobs0
    /\ refs = refs0
    /\ ~Did(p, "mutator.Add", TRUE)
    /\ \A call \in {"mutator.Commit"} \cup TagOps : ~Called(p, call)

\* C14: when the bundle metadata cannot be read, or the mtree file cannot be
\* opened or parsed, repack has returned an error and the store is as it was:
\* no blob written, no reference deleted or written.
C14_ConfigErrorNoPartialState ==
    \A p \in Procs :
        \/ Did(p, "ReadBundleMeta", FALSE)
        \/ Did(p, "os.Open", FALSE)
        \/ Did(p, "mtree.ParseSpec", FALSE)
        => /\ Terminated(p)
           /\ err[p] # NoErr
           /\ StoreUntouched(p)
           /\ ~Called(p, "mutator.Add")

\* C14 witness: the mtree file did not parse, after the store had been opened.
C14_Witness ==
    /\ Terminated(1)
    /\ Did(1, "mtree.ParseSpec", FALSE)
    /\ engine[1] = "closed"

\* C15: when mtree.Check or GenerateLayer fails, or the layer stream breaks
\* while Add consumes it, repack has returned an error, the blobs of the store
\* are as before, and neither Commit nor the tag swap was called.
C15_LayerErrorNoPartialLayer ==
    \A p \in Procs :
        \/ Did(p, "mtree.Check", FALSE)
        \/ Did(p, "layer.GenerateLayer", FALSE)
        \/ reader[p].broken /\ pc[p] \notin {"mutator.Meta", "mutator.Add"}
        => /\ Terminated(p)
           /\ err[p] # NoErr
           /\ StoreUntouched(p)

\* C15 witness: the stream broke while Add was reading it.
C15_Witness ==
    /\ Terminated(1)
    /\ reader[1].broken
    /\ Did(1, "mutator.Add", FALSE)
    /\ err[1].ctx = "add diff layer"

\* C16: whenever a call has failed, repack has returned an error that carries
\* the context of the failing stage.
C16_EveryErrorWrapped ==
    \A p \in Procs :
        Terminated(p) /\ (\E i \in 1..Len(ops[p]) : ops[p][i][2] = FALSE) =>
            /\ err[p] # NoErr
            /\ err[p].ctx # ""

\* The calls of a repack that succeeds, in order.
SuccessPath ==
    << "ReadBundleMeta", "CheckMediaType", "cas.Open", "mutate.New", "os.Open",
       "mtree.ParseSpec", "mtree.Check", "layer.GenerateLayer", "mutator.Meta",
       "mutator.Add", "mutator.Commit", "engine.DeleteReference",
       "engine.PutReference", "engine.Close" >>

\* C17: the calls are made in the one fixed order, each at most once and each
\* only after every call before it has succeeded; a repack that returns
\* without error has made every one of them.
C17_FixedOrder ==
    \A p \in Procs :
        /\ \A i \in 1..Len(ops[p]) :
              ops[p][i][1] # "engine.Close" =>
                  /\ i <= Len(SuccessPath)
                  /\ ops[p][i][1] = SuccessPath[i]
                  /\ \A j \in 1..(i - 1) : ops[p][j][2] = TRUE
        /\ Succeeded(p) =>
              ops[p] = [i \in 1..Len(SuccessPath) |-> <<SuccessPath[i], TRUE>>]

\* C17 witness: a repack has run through every stage.
C17_Witness ==
    /\ Succeeded(1)
    /\ Len(ops[1]) = Len(SuccessPath)

\* C18: a repack that found no changes and returned without error has built
\* and added a layer, committed, and swapped the tag: the committed manifest
\* has the base layers and the layer of the empty diff, the committed config
\* has one more history record, not marked empty, and the tag is bound to
\* the new Descriptor.
C18_EmptyDiffStillAppends ==
    \A p \in Procs :
        Succeeded(p) /\ diffs[p] = <<>> =>
            /\ \A call \in {"layer.GenerateLayer", "mutator.Add", "mutator.Commit",
                            "engine.DeleteReference", "engine.PutReference"} :
                  Did(p, call, TRUE)
            /\ Resolves(blobs, newDescriptor[p])
            /\ Len(NewManifestOf(p).layers) = Len(BaseManifestOf(p).layers) + 1
            /\ NewManifestOf(p).layers[Len(NewManifestOf(p).layers)] =
                  Descriptor(MediaTypeImageLayer, LayerBlob(<<>>))
            /\ Len(NewConfigOf(p).history) = Len(BaseConfigOf(p).history) + 1
            /\ NewConfigOf(p).history[Len(NewConfigOf(p).history)] = history[p]
            /\ history[p].empty_layer = FALSE
            /\ TagNow(p) = newDescriptor[p]
            /\ newDescriptor[p] # meta[p]

\* C18 witness: a successful repack of an unchanged bundle.
C18_Witness ==
    /\ Succeeded(1)
    /\ diffs[1] = <<>>
    /\ HasBlob(blobs, Digest(LayerBlob(<<>>)))
    /\ TagBefore(1) = meta[1]

\* C19: every repack terminates; no call is made twice, and after a call has
\* failed repack has returned an error without making another call.
C19_TerminatesWithoutRetry ==
    /\ <>(\A p \in Procs : pc[p] \in {"idle", "done"})
    /\ [](\A p \in Procs :
            /\ \A i, j \in 1..Len(ops[p]) : ops[p][i][1] = ops[p][j][1] => i = j
            /\ \A i \in 1..Len(ops[p]) :
                  ops[p][i][2] = FALSE =>
                      /\ Terminated(p)
                      /\ err[p] # NoErr
                      /\ \A j \in (i + 1)..Len(ops[p]) : ops[p][j][1] = "engine.Close")

\* C19 witness: a repack has ended at its first failing call.
C19_Witness ==
    /\ Terminated(1)
    /\ ops[1] = << <<"ReadBundleMeta", TRUE>>, <<"CheckMediaType", TRUE>>,
                   <<"cas.Open", TRUE>>, <<"mutate.New", TRUE>>,
                   <<"os.Open", FALSE>>, <<"engine.Close", TRUE>> >>

\* How often the invocation has closed the CAS handle.
Closes(p) == Cardinality({i \in 1..Len(ops[p]) : ops[p][i][1] = "engine.Close"})

\* C20: a repack that opened the CAS has closed it exactly once when it has
\* returned, as its last call, and not before; a repack that did not open the
\* CAS has not closed it.
C20_ClosedExactlyOnce ==
    \A p \in Procs :
        /\ Terminated(p) /\ Did(p, "cas.Open", TRUE) =>
              /\ Closes(p) = 1
              /\ ops[p][Len(ops[p])][1] = "engine.Close"
              /\ engine[p] = "closed"
        /\ Terminated(p) /\ ~Did(p, "cas.Open", TRUE) =>
              /\ Closes(p) = 0
              /\ engine[p] = "unopened"
        /\ ~Terminated(p) =>
              /\ Closes(p) = 0
              /\ engine[p] = IF Did(p, "cas.Open", TRUE) THEN "open" ELSE "unopened"

\* C20 witness: a repack whose PutReference failed has closed the CAS.
C20_Witness ==
    /\ Terminated(1)
    /\ Did(1, "engine.PutReference", FALSE)
    /\ Closes(1) = 1
    /\ engine[1] = "closed"

====
